---- MODULE Spec2Model ----
(***************************************************************************)
(* Mental Health Companion Chatbot (src/app.py).                           *)
(*                                                                         *)
(* A Python str is a sequence of strings: a typed text is a sequence of    *)
(* one-character strings, a canned sentence is one element holding the     *)
(* whole sentence, and + is \o.  A float polarity is an integer count of   *)
(* 1/10000ths; a score rounded to 3 decimals is a count of 1/1000ths.      *)
(* A value a function returns is a record [kind, value]: kind "str" with   *)
(* the text, "none" for None, "raise" for an exception leaving the call.   *)
(***************************************************************************)
EXTENDS Integers, Sequences, FiniteSets, TLC

VARIABLES
    groq,           \* the groq package at import: "missing" | "broken" | "ok"
    key_input,      \* value of the sidebar text input "Groq API Key"; its
                    \* default is os.getenv('GROQ_API_KEY', '')
    api_key,        \* APIHandler.api_key
    client,         \* key APIHandler.client was built from, NoKey when unset
    enabled,        \* APIHandler.enabled
    messages,       \* st.session_state.messages
    mood_history,   \* st.session_state.mood_history
    now,            \* the local wall clock datetime.now() reads
    stepped_back,   \* history: the wall clock was set back since the oldest
                    \* sample of mood_history was stamped
    sent,           \* requests the last page run sent to the remote service
    call,           \* test harness: the function call under test
    ret             \* test harness: what the call returned

vars == <<groq, key_input, api_key, client, enabled, messages,
          mood_history, now, stepped_back, sent, call, ret>>

(***************************************************************************)
(* Bounds of the model.                                                    *)
(***************************************************************************)
MaxTurns == 2
MaxClock == 1
MaxHistTurns == 4
MaxFrags == 2

(***************************************************************************)
(* Strings.                                                                *)
(***************************************************************************)
UpperCase == <<"A","B","C","D","E","F","G","H","I","J","K","L","M",
               "N","O","P","Q","R","S","T","U","V","W","X","Y","Z">>
LowerCase == <<"a","b","c","d","e","f","g","h","i","j","k","l","m",
               "n","o","p","q","r","s","t","u","v","w","x","y","z">>
Whitespace == {" ", "\n", "\t"}

lower_char(c) ==
    IF \E i \in DOMAIN UpperCase : UpperCase[i] = c
    THEN LowerCase[CHOOSE i \in DOMAIN UpperCase : UpperCase[i] = c]
    ELSE c

\* str.lower()
lower(s) == [i \in DOMAIN s |-> lower_char(s[i])]

\* w in s
contains(s, w) ==
    \E i \in 0 .. (Len(s) - Len(w)) : SubSeq(s, i + 1, i + Len(w)) = w

\* str.strip()
strip(s) ==
    LET keep == {i \in DOMAIN s : s[i] \notin Whitespace}
    IN IF keep = {} THEN <<>>
       ELSE SubSeq(s, CHOOSE i \in keep : \A j \in keep : i <= j,
                      CHOOSE i \in keep : \A j \in keep : j <= i)

\* dict.get(k, default)
get(d, k, default) == IF k \in DOMAIN d THEN d[k] ELSE default

Str(v) == [kind |-> "str", value |-> v]
None == [kind |-> "none", value |-> <<>>]
Raise == [kind |-> "raise", value |-> <<>>]
\* Python truthiness of an optional str
truthy(r) == r.kind = "str" /\ r.value # <<>>

(***************************************************************************)
(* SentimentAnalyzer.                                                      *)
(***************************************************************************)
Scale == 10 * 1000
\* What TextBlob(text).sentiment.polarity does: raises, or yields a
\* polarity in [-1, 1].  half says on which side of a decimal tie the
\* binary float lies, which decides round() there.
BlobRaises == [kind |-> "raise", polarity |-> 0, half |-> "down"]
Blob(p, h) == [kind |-> "polarity", polarity |-> p, half |-> h]

\* round(score, 3), in 1/1000ths
round3(p, half) ==
    LET q == p \div 10
        r == p % 10
    IN IF r < 5 THEN q
       ELSE IF r > 5 THEN q + 1
       ELSE IF half = "up" THEN q + 1 ELSE q

abs(x) == IF x < 0 THEN -x ELSE x

\* The result dict; score in 1/1000ths, confidence in 1/10000ths.
SentimentResult(s, sc, cf) == [sentiment |-> s, score |-> sc, confidence |-> cf]

analyze(text, blob) ==
    IF text = <<>> \/ strip(text) = <<>>
    THEN SentimentResult("neutral", 0, 0)
    ELSE IF blob.kind = "raise"
    THEN SentimentResult("neutral", 0, 0)
    ELSE LET score == blob.polarity
             sentiment == IF score * 10 > Scale THEN "positive"
                          ELSE IF score * 10 < -Scale THEN "negative"
                          ELSE "neutral"
         IN SentimentResult(sentiment, round3(score, blob.half), abs(score))

(***************************************************************************)
(* MentalHealthChatbot.                                                    *)
(***************************************************************************)
crisis_keywords == {
    <<"s","u","i","c","i","d","e">>,
    <<"k","i","l","l"," ","m","y","s","e","l","f">>,
    <<"e","n","d"," ","m","y"," ","l","i","f","e">>,
    <<"h","u","r","t"," ","m","y","s","e","l","f">>,
    <<"w","a","n","t"," ","t","o"," ","d","i","e">> }

_get_crisis_response ==
    <<"I'm concerned about your safety. Please contact:\n- Emergency: 911 (US) or 112 (EU)\n- Crisis Text Line: Text HOME to 741741\n- Suicide Prevention: 988 (US)\n\nThis chatbot cannot replace professional help. Please reach out to someone you trust or a mental health professional immediately.">>

\* Mutant: the text is matched as typed, without lower().
_check_crisis_cased(text) == \E word \in crisis_keywords : contains(text, word)

_check_crisis(text) == \E word \in crisis_keywords : contains(lower(text), word)

responses == [
    positive |-> <<"I'm glad you're feeling positive! Keep nurturing these good feelings.">>,
    neutral  |-> <<"I hear you. How are you feeling about things right now?">>,
    negative |-> <<"I'm sorry you're going through this. Your feelings are valid. Would you like to talk more about what's bothering you?">> ]

AnxietyMarkers == {<<"a","n","x","i","o","u","s">>, <<"w","o","r","r","i","e","d">>}
DepressionMarkers == {<<"s","a","d">>, <<"d","e","p","r","e","s","s","e","d">>}
StressMarkers == {<<"s","t","r","e","s","s","e","d">>,
                  <<"o","v","e","r","w","h","e","l","m","e","d">>}
AnxietyClause == <<" Anxiety can be overwhelming. Would you like to try some breathing exercises?">>
DepressionClause == <<" Remember that these feelings can change. You're not alone.">>
StressClause == <<" Stress can feel overwhelming. Breaking things into smaller steps can help.">>

any_in(markers, text) == \E w \in markers : contains(lower(text), w)

\* Mutant: if / if / if in place of if / elif / elif, the clauses pile up.
_get_local_response_all(sentiment, user_input) ==
    LET base == get(responses, sentiment, responses.neutral)
    IN base
       \o (IF any_in(AnxietyMarkers, user_input) THEN AnxietyClause ELSE <<>>)
       \o (IF any_in(DepressionMarkers, user_input) THEN DepressionClause ELSE <<>>)
       \o (IF any_in(StressMarkers, user_input) THEN StressClause ELSE <<>>)

_get_local_response(sentiment, user_input) ==
    LET base == get(responses, sentiment, responses.neutral)
    IN IF any_in(AnxietyMarkers, user_input) THEN base \o AnxietyClause
       ELSE IF any_in(DepressionMarkers, user_input) THEN base \o DepressionClause
       ELSE IF any_in(StressMarkers, user_input) THEN base \o StressClause
       ELSE base

(***************************************************************************)
(* APIHandler.                                                             *)
(***************************************************************************)
NoKey == <<>>
Keys == {<<"k","1">>, <<"k","2">>}

HistoryWindow == 4
system_prompt ==
    <<"You are a compassionate mental health companion. Provide empathetic, supportive responses (2-3 sentences). Be warm and understanding.">>

Msg(role, content) == [role |-> role, content |-> content]

\* conversation_history[-4:]
last_n(h, n) == IF Len(h) <= n THEN h ELSE SubSeq(h, Len(h) - n + 1, Len(h))

RECURSIVE history_entries(_)
\* the loop over the window: role mapped, empty content skipped
history_entries(h) ==
    IF h = <<>> THEN <<>>
    ELSE LET msg == Head(h)
             role == IF get(msg, "role", "") = "user" THEN "user" ELSE "assistant"
         IN (IF get(msg, "content", <<>>) # <<>>
             THEN <<Msg(role, msg.content)>> ELSE <<>>)
            \o history_entries(Tail(h))

history_window(conversation_history) == last_n(conversation_history, HistoryWindow)

request_messages(user_input, sentiment_result, conversation_history) ==
    LET sentiment == get(sentiment_result, "sentiment", "neutral")
        user_message == <<"User mood: ", sentiment, "\n\nUser says: ">> \o user_input
    IN <<Msg("system", system_prompt), Msg("user", user_message)>>
       \o history_entries(history_window(conversation_history))

Request(msgs) == [model |-> "llama-3.1-8b-instant", messages |-> msgs,
                  max_tokens |-> 150, temperature |-> 7]

\* What client.chat.completions.create does with one request.
NetworkError == [kind |-> "network_error", content |-> <<>>]
AuthError == [kind |-> "auth_error", content |-> <<>>]
NoChoices == [kind |-> "no_choices", content |-> <<>>]
NullContent == [kind |-> "null_content", content |-> <<>>]
Completion(c) == [kind |-> "text", content |-> c]

\* Lines 44-67: the body of the try block.
try_body(outcome) ==
    IF outcome.kind = "text" THEN Str(strip(outcome.content)) ELSE Raise

\* Mutant: no except clause, the exception leaves the call.
except_missing(r) == r

\* except Exception: return None
except_none(r) == IF r.kind = "raise" THEN None ELSE r

\* Returns [kind, value, sent]: the returned value and the requests sent.
generate_response(is_enabled, user_input, sentiment_result, conversation_history, outcome) ==
    IF ~is_enabled
    THEN [kind |-> "none", value |-> <<>>, sent |-> <<>>]
    ELSE LET r == except_none(try_body(outcome))
         IN [kind |-> r.kind, value |-> r.value,
             sent |-> <<Request(request_messages(user_input, sentiment_result,
                                                 conversation_history))>>]

\* MentalHealthChatbot.get_response; returns [kind, value, sent].
get_response(is_enabled, user_input, sentiment_result, conversation_history, outcome) ==
    IF _check_crisis(user_input)
    THEN [kind |-> "str", value |-> _get_crisis_response, sent |-> <<>>]
    ELSE LET api == IF is_enabled
                    THEN generate_response(is_enabled, user_input, sentiment_result,
                                           conversation_history, outcome)
                    ELSE [kind |-> "none", value |-> <<>>, sent |-> <<>>]
         IN IF api.kind = "raise" THEN api
            ELSE IF truthy(api) THEN api
            ELSE [kind |-> "str",
                  value |-> _get_local_response(
                                get(sentiment_result, "sentiment", "neutral"), user_input),
                  sent |-> api.sent]

\* Groq(api_key=...) succeeds
client_built(key) == groq = "ok" /\ key # NoKey

\* APIHandler.set_api_key: the new <<api_key, client, enabled>>
set_api_key(key) ==
    IF key # NoKey /\ groq # "missing"
    THEN IF client_built(key) THEN <<key, key, TRUE>> ELSE <<key, client, FALSE>>
    ELSE <<key, client, FALSE>>

(***************************************************************************)
(* The Streamlit page.  One action is one run of the script for one widget *)
(* event, followed by the run st.rerun() starts (that run passes the same  *)
(* key to set_api_key again, which changes nothing).  A run reads the      *)
(* clock once per datetime.now(); the clock moves between runs.            *)
(***************************************************************************)
\* Lines 215-216: every run passes the text input to the chatbot if it is
\* not empty.  The new <<api_key, client, enabled>>.
sidebar_key(k) == IF k # NoKey THEN set_api_key(k) ELSE <<api_key, client, enabled>>

\* APIHandler.__init__: <<api_key, client, enabled>> after construction.
init_handler(g, env) ==
    IF g = "ok" /\ env # NoKey THEN <<env, env, TRUE>> ELSE <<env, NoKey, FALSE>>

NoCall == [fn |-> "none"]

SessionInit(groqs, envs) ==
    /\ groq \in groqs
    /\ \E env \in envs :
          /\ key_input = env
          /\ api_key = init_handler(groq, env)[1]
          /\ client = init_handler(groq, env)[2]
          /\ enabled = init_handler(groq, env)[3]
    /\ messages = <<>>
    /\ mood_history = <<>>
    /\ now = 0
    /\ stepped_back = FALSE
    /\ sent = <<>>
    /\ call = NoCall
    /\ ret = NoCall

Init == SessionInit({"missing", "broken", "ok"}, {NoKey} \cup {<<"k","1">>})

Sidebar(k) ==
    /\ api_key' = sidebar_key(k)[1]
    /\ client' = sidebar_key(k)[2]
    /\ enabled' = sidebar_key(k)[3]

\* A run with no widget event (page reload).
Rerun ==
    /\ Sidebar(key_input)
    /\ sent' = <<>>
    /\ UNCHANGED <<groq, key_input, messages, mood_history, now,
                   stepped_back, call, ret>>

\* The user edits the API key field (sets, changes or clears it).
EditKey ==
    \E k \in Keys \cup {NoKey} :
        /\ k # key_input
        /\ key_input' = k
        /\ Sidebar(k)
        /\ sent' = <<>>
            /\ UNCHANGED <<groq, messages, mood_history, now,
                       stepped_back, call, ret>>

\* "Get a Tip": the tip is rendered, nothing is stored.
GetTip ==
    /\ Sidebar(key_input)
    /\ sent' = <<>>
    /\ UNCHANGED <<groq, key_input, messages, mood_history, now,
                   stepped_back, call, ret>>

\* Mutant: the reset forgets the mood history.
kept_mood_history == mood_history

cleared_messages == <<>>
cleared_mood_history == <<>>

\* "Clear Chat"
ClearChat ==
    /\ Sidebar(key_input)
    /\ messages' = cleared_messages
    /\ mood_history' = cleared_mood_history
    /\ stepped_back' = FALSE
    /\ sent' = <<>>
    /\ UNCHANGED <<groq, key_input, now, call, ret>>

\* Mutant: the whole log, the current user message included, is the history.
whole_history(msgs) == msgs

\* messages[:-1] if len(messages) > 1 else []
prior_history(msgs) == IF Len(msgs) > 1 THEN SubSeq(msgs, 1, Len(msgs) - 1) ELSE <<>>

\* The user message carries blob, a history field no code reads: what
\* TextBlob does with this content.
UserMessage(user_input, blob, t) ==
    [role |-> "user", content |-> user_input, timestamp |-> t, blob |-> blob]

\* Mutant: the reply is tagged with the confidence in place of the score.
AssistantMessage_confidence(response, sentiment, t) ==
    [role |-> "assistant", content |-> response, mood |-> sentiment.sentiment,
     sentiment_score |-> sentiment.confidence, timestamp |-> t]

AssistantMessage(response, sentiment, t) ==
    [role |-> "assistant", content |-> response, mood |-> sentiment.sentiment,
     sentiment_score |-> sentiment.score, timestamp |-> t]

MoodSample(sentiment, t) ==
    [timestamp |-> t, sentiment |-> sentiment.sentiment,
     sentiment_score |-> sentiment.score]

\* what the handler tags the reply and the mood sample with
tagged_sentiment(user_input, blob) == analyze(user_input, blob)

\* Mutant: the sample is inserted at the front.
prepend_mood(hist, sample) == <<sample>> \o hist

\* mood_history.append(...)
append_mood(hist, sample) == Append(hist, sample)

\* Lines 266-292, after the sidebar of the same run.
Turn(cap, user_input, blob, outcome) ==
    /\ user_input # <<>>
    /\ Len(messages) < 2 * cap
    /\ Sidebar(key_input)
    /\ LET with_user == Append(messages, UserMessage(user_input, blob, now))
           sentiment == tagged_sentiment(user_input, blob)
           history == prior_history(with_user)
           response == get_response(enabled', user_input, sentiment, history, outcome)
       IN /\ sent' = response.sent
          /\ IF response.kind = "raise"
             THEN /\ messages' = with_user
                  /\ UNCHANGED mood_history
             ELSE /\ messages' = Append(with_user,
                                   AssistantMessage(response.value, sentiment, now))
                  /\ mood_history' = append_mood(mood_history, MoodSample(sentiment, now))
    /\ UNCHANGED <<groq, key_input, now, stepped_back, call, ret>>

\* What the user types in a session, with what TextBlob makes of it.
SessionUtterances == {
    <<<<"S","u","i","C","I","D","e","s">>, Blob(-6 * 1000, "down")>>,
    <<<<"s","a","d">>, Blob(1004, "down")>>,
    <<<<" ">>, BlobRaises>> }
SessionOutcomes == {NetworkError, Completion(<<" ","h","i","\n">>)}

ChatInput ==
    \E u \in SessionUtterances, outcome \in SessionOutcomes :
        Turn(MaxTurns, u[1], u[2], outcome)

\* The wall clock moves on.
ClockTick ==
    /\ now < MaxClock
    /\ now' = now + 1
    /\ UNCHANGED <<groq, key_input, api_key, client, enabled, messages,
                   mood_history, stepped_back, sent, call, ret>>

\* The wall clock is set back (DST end, NTP step, manual change):
\* datetime.now() is naive local time, not a monotonic clock.
ClockStepBack ==
    /\ now > 0
    /\ now' = now - 1
    /\ stepped_back' = (mood_history # <<>>)
    /\ UNCHANGED <<groq, key_input, api_key, client, enabled, messages,
                   mood_history, sent, call, ret>>

Next == Rerun \/ EditKey \/ GetTip \/ ClearChat \/ ChatInput \/ ClockTick \/ ClockStepBack

Spec == Init /\ [][Next]_vars

(***************************************************************************)
(* Properties of the session.                                              *)
(***************************************************************************)
IsPrefix(a, b) == Len(a) <= Len(b) /\ SubSeq(b, 1, Len(a)) = a

\* C3: every assistant message carries the mood and the score analyze
\* computes from the user message right before it.
C3_TagsMatchAnalysis ==
    \A i \in DOMAIN messages :
        messages[i].role = "assistant" =>
            /\ i > 1
            /\ messages[i - 1].role = "user"
            /\ LET r == analyze(messages[i - 1].content, messages[i - 1].blob)
               IN /\ messages[i].mood = r.sentiment
                  /\ messages[i].sentiment_score = r.score

\* A crisis turn tagged negative, then a turn answered by the remote service.
C3_Witness ==
    /\ Len(messages) = 4
    /\ messages[2].content = _get_crisis_response
    /\ messages[2].mood = "negative"
    /\ messages[4].content = <<"h","i">>
    /\ messages[4].mood = "positive"
    /\ messages[4].sentiment_score = 100

Alternates ==
    \A i \in DOMAIN messages :
        messages[i].role = (IF i % 2 = 1 THEN "user" ELSE "assistant")
PairCount == Len(messages) \div 2
TimestampsSorted ==
    \A i, j \in DOMAIN mood_history :
        i <= j => mood_history[i].timestamp <= mood_history[j].timestamp
PairsCounted ==
    /\ Alternates
    /\ Len(messages) % 2 = 0
    /\ Len(mood_history) = PairCount

\* C4 as stated: one mood sample per user/assistant pair, the samples'
\* timestamps in non-decreasing order.
C4_SamplesCountedAndSorted == PairsCounted /\ TimestampsSorted

\* C4 amended: one mood sample per user/assistant pair; the timestamps are
\* in non-decreasing order as long as the wall clock was not set back since
\* the oldest sample was stamped.
C4_SamplesCountedSortedUnlessClockSetBack ==
    PairsCounted /\ (~stepped_back => TimestampsSorted)

C4_Witness ==
    /\ Len(mood_history) = 2
    /\ Len(messages) = 4
    /\ ~stepped_back
    /\ mood_history[1].timestamp < mood_history[2].timestamp

\* C5: the remote responder is available iff a non-empty credential is
\* configured at present and the client was built from it.
C5_AvailableIffConfigured ==
    enabled <=> (key_input # NoKey /\ client = key_input)

\* C7: a reset empties both logs, and every other step leaves each log a
\* prefix of what it becomes.
C7_AppendOnlyBetweenResets ==
    [][ /\ ClearChat => (messages' = <<>> /\ mood_history' = <<>>)
        /\ ~ClearChat => /\ IsPrefix(messages, messages')
                         /\ IsPrefix(mood_history, mood_history') ]_vars

C7_Witness ==
    /\ Len(messages) = 4
    /\ Len(mood_history) = 2
    /\ sent # <<>>

(***************************************************************************)
(* Long conversations: the page with the remote responder configured, the  *)
(* clock left alone, and more turns.                                       *)
(***************************************************************************)
HistoryUtterances == {
    <<<<"o","k">>, Blob(1004, "down")>>,
    <<<<" ">>, BlobRaises>> }

InitHistory == SessionInit({"ok"}, {<<"k","1">>})

ChatInputLong ==
    \E u \in HistoryUtterances, outcome \in SessionOutcomes :
        Turn(MaxHistTurns, u[1], u[2], outcome)

NextHistory == ChatInputLong \/ ClearChat

SpecHistory == InitHistory /\ [][NextHistory]_vars

NonEmptyContent(m) == m.content # <<>>
RoleOf(m) == IF m.role = "user" THEN "user" ELSE "assistant"
Min(a, b) == IF a <= b THEN a ELSE b

Fragments == {
    <<"s","u","i","c","i","d","e">>,
    <<"K","i","l","l"," ","M","y","s","e","l","f">>,
    <<"E","N","D"," ","M","Y"," ","L","I","F","E">>,
    <<"h","u","r","t"," ","m","y","S","E","L","F">>,
    <<"w","a","n","t"," ","t","o"," ">>,
    <<"D","i","e">>,
    <<"a","n","x","i","o","u","s">>,
    <<"W","o","r","r","i","e","d">>,
    <<"s","a","d">>,
    <<"D","E","P","R","E","S","S","E","D">>,
    <<"s","t","r","e","s","s","e","d">>,
    <<"O","v","e","r","w","h","e","l","m","e","d">>,
    <<" ">>,
    <<"o","k">> }

RECURSIVE Join(_)
Join(fs) == IF fs = <<>> THEN <<>> ELSE Head(fs) \o Join(Tail(fs))

UnitTexts == {Join(fs) : fs \in UNION {[1 .. n -> Fragments] : n \in 0 .. MaxFrags}}

Polarities == (-Scale) .. Scale
Blobs == {BlobRaises}
         \cup {Blob(p, "down") : p \in Polarities}
         \cup {Blob(p, "up") : p \in {q \in Polarities : q % 10 = 5}}
AnalyzeTexts == {<<>>, <<" ", "\n">>, <<"o","k">>, <<" ","s","a","d","\t">>}

Labels == {"positive", "neutral", "negative", "mixed"}

SentimentResults == {
    [sentiment |-> "positive", score |-> 800, confidence |-> 8000],
    [sentiment |-> "negative", score |-> -500, confidence |-> 5000],
    [sentiment |-> "neutral", score |-> 0, confidence |-> 0] }

Outcomes == {NetworkError, AuthError, NoChoices, NullContent,
             Completion(<<>>), Completion(<<" ", "\n">>),
             Completion(<<" ","h","i","\n">>)}

\* Histories as a caller may pass them: any role, content possibly empty.
HistoryOf(n) ==
    [i \in 1 .. n |->
        [role |-> IF i % 2 = 1 THEN "user" ELSE "bot",
         content |-> IF i % 3 = 2 THEN <<>> ELSE <<"m">>]]
Histories == {HistoryOf(0), HistoryOf(HistoryWindow + 1)}
LongHistory == {HistoryOf(HistoryWindow + 1)}

AnalyzeCalls == [fn : {"analyze"}, text : AnalyzeTexts, blob : Blobs]
LocalCalls == [fn : {"_get_local_response"}, sentiment : Labels, text : UnitTexts]
ResponderStates == {<<FALSE, NetworkError>>} \cup {<<TRUE, o>> : o \in Outcomes}
FewResponderStates == {<<FALSE, NetworkError>>, <<TRUE, NetworkError>>,
                       <<TRUE, Completion(<<" ", "\n">>)>>,
                       <<TRUE, Completion(<<" ","h","i","\n">>)>>}
GetResponseCalls ==
    {[fn |-> "get_response", text |-> t, sentiment_result |-> s, history |-> h,
      enabled |-> e[1], outcome |-> e[2]] :
        t \in UnitTexts,
        s \in {[sentiment |-> "negative", score |-> -500, confidence |-> 5000],
               [score |-> 0]},
        h \in LongHistory, e \in FewResponderStates}
GenerateCalls ==
    {[fn |-> "generate_response", text |-> t, sentiment_result |-> s, history |-> h,
      enabled |-> e[1], outcome |-> e[2]] :
        t \in AnalyzeTexts, s \in SentimentResults,
        h \in Histories, e \in ResponderStates}

InitUnit ==
    /\ groq = "ok"
    /\ key_input = NoKey
    /\ api_key = NoKey
    /\ client = NoKey
    /\ enabled = FALSE
    /\ messages = <<>>
    /\ mood_history = <<>>
    /\ now = 0
    /\ stepped_back = FALSE
    /\ sent = <<>>
    /\ ret = NoCall
    /\ \/ call \in AnalyzeCalls
       \/ call \in LocalCalls
       \/ call \in GetResponseCalls
       \/ call \in GenerateCalls

Returns(v) ==
    /\ ret = NoCall
    /\ ret' = v
    /\ UNCHANGED <<groq, key_input, api_key, client, enabled, messages,
                   mood_history, now, stepped_back, sent, call>>

CallAnalyze ==
    /\ call.fn = "analyze"
    /\ Returns(analyze(call.text, call.blob))

CallLocalResponse ==
    /\ call.fn = "_get_local_response"
    /\ Returns([value |-> _get_local_response(call.sentiment, call.text)])

CallGetResponse ==
    /\ call.fn = "get_response"
    /\ Returns(get_response(call.enabled, call.text, call.sentiment_result,
                            call.history, call.outcome))

CallGenerateResponse ==
    /\ call.fn = "generate_response"
    /\ Returns(generate_response(call.enabled, call.text, call.sentiment_result,
                                 call.history, call.outcome))

NextUnit == CallAnalyze \/ CallLocalResponse \/ CallGetResponse \/ CallGenerateResponse

SpecUnit == InitUnit /\ [][NextUnit]_vars

Returned(fn) == call.fn = fn /\ ret # NoCall

(***************************************************************************)
(* Properties of the functions.                                            *)
(***************************************************************************)
SameIgnoringCase(a, b) ==
    /\ Len(a) = Len(b)
    /\ \A i \in DOMAIN a : lower_char(a[i]) = lower_char(b[i])
\* w occurs in text at some position, letter case ignored
Mentions(text, w) ==
    \E i \in 1 .. Len(text) :
        /\ i + Len(w) - 1 <= Len(text)
        /\ SameIgnoringCase(SubSeq(text, i, i + Len(w) - 1), w)
MentionsAny(text, words) == \E w \in words : Mentions(text, w)

CrisisPhrases == {
    <<"s","u","i","c","i","d","e">>,
    <<"k","i","l","l"," ","m","y","s","e","l","f">>,
    <<"e","n","d"," ","m","y"," ","l","i","f","e">>,
    <<"h","u","r","t"," ","m","y","s","e","l","f">>,
    <<"w","a","n","t"," ","t","o"," ","d","i","e">> }

\* C1: a text holding a crisis phrase, in any letter case and at any
\* position, gets exactly the crisis message and no request is sent,
\* whatever the responder's state, the sentiment result and the history.
C1_CrisisTextGetsCrisisMessage ==
    (Returned("get_response") /\ MentionsAny(call.text, CrisisPhrases)) =>
        /\ ret.kind = "str"
        /\ ret.value = _get_crisis_response
        /\ ret.sent = <<>>

\* "want to Die" with the responder enabled and the service answering.
C1_Witness ==
    /\ Returned("get_response")
    /\ call.text = <<"w","a","n","t"," ","t","o"," ","D","i","e">>
    /\ call.enabled
    /\ call.outcome = Completion(<<" ","h","i","\n">>)
    /\ ret.value = _get_crisis_response

Blank(s) == \A i \in DOMAIN s : s[i] \in Whitespace
\* the responder is disabled, or its call fails or yields no text
NoRemoteText ==
    \/ ~call.enabled
    \/ call.outcome.kind # "text"
    \/ Blank(call.outcome.content)

\* C2: generate_response never raises and returns None or the empty string
\* when the responder is disabled, fails or yields no text; get_response
\* then returns the non-empty template reply; at most one request per call.
C2_FailureFallsBackToTemplate ==
    /\ Returned("generate_response") =>
          /\ ret.kind # "raise"
          /\ Len(ret.sent) <= 1
          /\ ~call.enabled => ret.sent = <<>>
          /\ NoRemoteText => (ret.kind = "none" \/ ret.value = <<>>)
    /\ (Returned("get_response") /\ ~MentionsAny(call.text, CrisisPhrases)) =>
          /\ ret.kind = "str"
          /\ ret.value # <<>>
          /\ Len(ret.sent) <= 1
          /\ ~call.enabled => ret.sent = <<>>
          /\ NoRemoteText =>
                ret.value = _get_local_response(
                                get(call.sentiment_result, "sentiment", "neutral"),
                                call.text)

\* A network failure on "sad" answered by the negative template.
C2_Witness ==
    /\ Returned("get_response")
    /\ call.text = <<"s","a","d">>
    /\ call.enabled
    /\ call.outcome = NetworkError
    /\ Len(ret.sent) = 1
    /\ ret.value = responses.negative \o DepressionClause

\* C8: the label of a result for a non-blank text agrees with its score:
\* above 0.1 positive, below -0.1 negative, neutral from -0.1 to 0.1.
C8_LabelAgreesWithScore ==
    (Returned("analyze") /\ ~Blank(call.text)) =>
        ret.sentiment = (IF ret.score > 100 THEN "positive"
                         ELSE IF ret.score < -100 THEN "negative"
                         ELSE "neutral")

\* C9: the confidence is the absolute value of the score of the same result
\* (3 decimals) and lies in [0, 1].
C9_ConfidenceIsAbsScore ==
    Returned("analyze") =>
        /\ ret.confidence = 10 * abs(ret.score)
        /\ 0 <= ret.confidence
        /\ ret.confidence <= Scale

BaseSentence(label) ==
    IF label = "positive" THEN responses.positive
    ELSE IF label = "negative" THEN responses.negative
    ELSE responses.neutral
ExpectedClause(text) ==
    IF MentionsAny(text, AnxietyMarkers) THEN AnxietyClause
    ELSE IF MentionsAny(text, DepressionMarkers) THEN DepressionClause
    ELSE IF MentionsAny(text, StressMarkers) THEN StressClause
    ELSE <<>>

\* C10: the template reply is the base sentence of the mood (the neutral
\* one for an unknown label) followed by at most one clause, that of the
\* first marker category the text matches: anxiety, depression, stress.
C10_BasePlusFirstMatchingClause ==
    Returned("_get_local_response") =>
        /\ ret.value = BaseSentence(call.sentiment) \o ExpectedClause(call.text)
        /\ Len(ret.value) <= 2

\* "stressedWorried" under an unknown label: neutral base, anxiety clause only.
C10_Witness ==
    /\ Returned("_get_local_response")
    /\ call.sentiment = "mixed"
    /\ call.text = <<"s","t","r","e","s","s","e","d","W","o","r","r","i","e","d">>
    /\ ret.value = responses.neutral \o AnxietyClause

====
